---- MODULE Spec2Model ----
(***************************************************************************)
(* Document ingestion and text normalisation of the AI RFP agent           *)
(* (src/module_logic.py, class InputProcessor), and the pipeline that      *)
(* calls it (src/agent.py, AiRfpAgent.process_rfp).                        *)
(*                                                                         *)
(* A text is a sequence of one-character strings.  An optional text (a     *)
(* Python value that is a str or None) is a record [some, text]; None has  *)
(* some = FALSE.                                                           *)
(***************************************************************************)
EXTENDS Naturals, Sequences, FiniteSets

\* ------------------------------------------------------------------ bounds
\* Longest input of the normaliser explored exhaustively.
MaxLen == 9

\* --------------------------------------------------------------- characters
NL == "\n"
SP == " "

\* The characters str.strip() removes that occur in the modelled texts.
Whitespace == {SP, NL, "\t", "\r"}

\* The alphabet of the exhaustively explored texts.
Alphabet == {"a", NL, SP}

None == [some |-> FALSE, text |-> <<>>]
Str(t) == [some |-> TRUE, text |-> t]

\* `return extracted_text` in place of `extracted_text if extracted_text
\* else None`.
OrNone_always_str(t) == Str(t)

\* `x if x else None` (module_logic.py:104, 120, 123, 126, 128)
OrNone(t) == IF t = <<>> THEN None ELSE Str(t)

Rep(ch, n) == [k \in 1..n |-> ch]

\* -------------------------------------------------------------- _clean_text
\* Number of consecutive line breaks of text starting at position i.
RECURSIVE NewlineRun(_, _)
NewlineRun(text, i) ==
    IF i > Len(text) \/ text[i] # NL THEN 0 ELSE 1 + NewlineRun(text, i + 1)

\* A pattern \n{3} in place of \n{3,}: the match stops after three line breaks.
NewlineMatch_exactly3(text, i) ==
    IF NewlineRun(text, i) >= 3 THEN 3 ELSE 0

\* Length of the match of the pattern \n{3,} at position i, 0 when it does
\* not match there.  The quantifier is greedy: the whole run is consumed.
NewlineMatch(text, i) ==
    IF NewlineRun(text, i) >= 3 THEN NewlineRun(text, i) ELSE 0

\* re.sub(r"\n{3,}", "\n\n", text) from position i on: search the leftmost
\* match at or after i, copy the characters before it, put two line breaks
\* for it, and go on behind it; without a match copy the rest.
RECURSIVE ReSubFrom(_, _)
ReSubFrom(text, i) ==
    LET starts == { j \in i..Len(text) : NewlineMatch(text, j) > 0 }
    IN  IF starts = {} THEN SubSeq(text, i, Len(text))
        ELSE LET j == CHOOSE j \in starts : \A k \in starts : j <= k
             IN  SubSeq(text, i, j - 1) \o <<NL, NL>>
                     \o ReSubFrom(text, j + NewlineMatch(text, j))

ReSub(text) == ReSubFrom(text, 1)

RECURSIVE LStrip(_)
LStrip(text) ==
    IF text # <<>> /\ Head(text) \in Whitespace THEN LStrip(Tail(text)) ELSE text

RECURSIVE RStrip(_)
RStrip(text) ==
    IF text # <<>> /\ text[Len(text)] \in Whitespace
    THEN RStrip(SubSeq(text, 1, Len(text) - 1))
    ELSE text

\* text.rstrip() in place of text.strip().
Strip_trailing_only(text) == RStrip(text)

\* str.strip()
Strip(text) == LStrip(RStrip(text))

\* InputProcessor._clean_text
_clean_text(text) ==
    IF text = <<>> THEN <<>> ELSE Strip(ReSub(text))

\* ------------------------------------------------------------ file paths
UpperCase == <<"A", "B", "C", "D", "E", "F", "G", "H", "I", "J", "K", "L", "M",
               "N", "O", "P", "Q", "R", "S", "T", "U", "V", "W", "X", "Y", "Z">>
LowerCase == <<"a", "b", "c", "d", "e", "f", "g", "h", "i", "j", "k", "l", "m",
               "n", "o", "p", "q", "r", "s", "t", "u", "v", "w", "x", "y", "z">>

\* str.lower(), one character
LowerChar(ch) ==
    IF \E k \in 1..Len(UpperCase) : UpperCase[k] = ch
    THEN LowerCase[CHOOSE k \in 1..Len(UpperCase) : UpperCase[k] = ch]
    ELSE ch

\* The path used as it is, file_path.lower() left out.
lower_not_applied(path) == path

\* file_path.lower()
lower(path) == [k \in 1..Len(path) |-> LowerChar(path[k])]

\* str.rfind(ch), 1-based; 0 when ch does not occur
RFind(path, ch) ==
    IF \E k \in 1..Len(path) : path[k] = ch
    THEN CHOOSE k \in 1..Len(path) :
             path[k] = ch /\ \A j \in (k + 1)..Len(path) : path[j] # ch
    ELSE 0

\* os.path.splitext(path)[1]: the suffix from the last dot of the last path
\* component, unless that component consists of leading dots only up to it.
splitext(path) ==
    LET sepIndex == RFind(path, "/")
        dotIndex == RFind(path, ".")
    IN  IF dotIndex > sepIndex
           /\ \E k \in (sepIndex + 1)..(dotIndex - 1) : path[k] # "."
        THEN SubSeq(path, dotIndex, Len(path))
        ELSE <<>>

\* The image extensions of process_document.
ImageExtensions ==
    { <<".", "p", "n", "g">>, <<".", "j", "p", "g">>, <<".", "j", "p", "e", "g">>,
      <<".", "t", "i", "f", "f">>, <<".", "b", "m", "p">>, <<".", "g", "i", "f">> }

\* The if/elif chain of process_document: the strategy an extension selects.
Strategy(extension) ==
    IF extension = <<".", "t", "x", "t">> THEN "process_txt"
    ELSE IF extension = <<".", "d", "o", "c", "x">> THEN "process_docx"
    ELSE IF extension = <<".", "p", "d", "f">> THEN "pdftotext"
    ELSE IF extension \in ImageExtensions THEN "ocr_image"
    ELSE "unsupported"

\* Routing without the os.path.exists guard.
Dispatch_no_exists_check(exists, path) == Strategy(splitext(lower(path)))

\* process_document up to the call of a strategy: the existence check comes
\* first, then the extension of the lower-cased path decides.
Dispatch(exists, path) ==
    IF ~exists THEN "missing" ELSE Strategy(splitext(lower(path)))

\* ------------------------------------------------------- process_pdf helpers
\* The "insufficient text" threshold of process_pdf.
Threshold == 100

\* Largest number of pages of a modelled PDF; page images are named by their
\* page number 1..MaxPages (pdftoppm's page-<n>.png, one digit wide, so the
\* lexicographic order of the names is the numeric order).
MaxPages == 3

\* "\n\n--- Page Break ---\n\n"
PageBreak ==
    <<NL, NL, "-", "-", "-", SP, "P", "a", "g", "e", SP,
      "B", "r", "e", "a", "k", SP, "-", "-", "-", NL, NL>>

\* OCR attempted for every PDF, whatever the direct extraction gave.
Insufficient_always(extracted_text) == TRUE

\* A test `len(extracted_text) <= 100` in place of `< 100`.
Insufficient_off_by_one(extracted_text) ==
    extracted_text = <<>> \/ Len(extracted_text) <= Threshold

\* `not extracted_text or len(extracted_text) < 100`
Insufficient(extracted_text) ==
    extracted_text = <<>> \/ Len(extracted_text) < Threshold

\* A join that puts the items in reverse order.
RECURSIVE Join_reversed(_, _)
Join_reversed(sep, texts) ==
    IF texts = <<>> THEN <<>>
    ELSE IF Len(texts) = 1 THEN texts[1]
    ELSE Join_reversed(sep, Tail(texts)) \o sep \o texts[1]

\* sep.join(texts) for a list of str
RECURSIVE Join(_, _)
Join(sep, texts) ==
    IF texts = <<>> THEN <<>>
    ELSE IF Len(texts) = 1 THEN texts[1]
    ELSE texts[1] \o sep \o Join(sep, Tail(texts))

\* sorted(names): ascending sequence of a set of page-image names
RECURSIVE sorted(_)
sorted(names) ==
    IF names = {} THEN <<>>
    ELSE LET least == CHOOSE n \in names : \A m \in names : n <= m
         IN  <<least>> \o sorted(names \ {least})

\* _ocr_image_to_text with `return None` in the except branch.
_ocr_image_to_text_none_on_failure(image, ok) ==
    IF ok THEN Str(_clean_text(image)) ELSE None

\* InputProcessor._ocr_image_to_text: image is the text the OCR engine reads
\* off the image, ok whether Image.open and image_to_string both succeed.
_ocr_image_to_text(image, ok) ==
    IF ok THEN Str(_clean_text(image)) ELSE Str(<<>>)

\* --------------------------------------------------------------- inputs
\* A file of the filesystem as process_document sees it: its path, whether it
\* exists, and what each reader obtains from it when the reader succeeds
\* (text: f.read(); paras: the paragraphs of docx.Document; direct: the
\* standard output of pdftotext; pages: what the OCR engine reads off each
\* rasterized page; image: what it reads off the file itself).
File(path, exists, text, paras, direct, pages, image) ==
    [path |-> path, exists |-> exists, text |-> text, paras |-> paras,
     direct |-> direct, pages |-> pages, image |-> image]

NoFile == File(<<>>, FALSE, <<>>, <<>>, <<>>, <<>>, <<>>)

\* pdftotext outputs: nothing; a few characters; 101 raw characters that
\* normalise to Threshold - 1; 104 raw characters that normalise to Threshold.
DirectOutputs ==
    { <<>>,
      <<SP, "H", "i", NL>>,
      Rep("a", Threshold - 1) \o <<SP, SP>>,
      <<NL, NL, NL>> \o Rep("a", Threshold) \o <<SP>> }

PageA == <<"P", "a", "g", "e", SP, "A">>
PageB == <<"P", "a", "g", "e", SP, "B">>

\* Page lists: no page; one blank page; the two pages "Page A", "Page B";
\* MaxPages pages of which the second is blank.
PageLists ==
    { <<>>,
      << <<SP, NL>> >>,
      << PageA \o <<NL>>, PageB >>,
      [k \in 1..MaxPages |->
          IF k = 1 THEN <<"x">>
          ELSE IF k = 2 THEN <<SP, NL>>
          ELSE <<"z", NL, NL, NL, NL, "w", NL>>] }

PdfPath == <<"r", ".", "p", "d", "f">>

Para1 == <<"P", "a", "r", "a", "1">>
Para2 == <<"P", "a", "r", "a", "2">>

Inputs ==
    { File(PdfPath, TRUE, <<>>, <<>>, d, p, <<>>) :
          d \in DirectOutputs, p \in PageLists }
    \cup
    { File(<<"R", ".", "P", "D", "F">>, TRUE, <<>>, <<>>, <<SP, "H", "i", NL>>,
           << PageA \o <<NL>>, PageB >>, <<>>),
      File(<<"r", ".", "t", "x", "t">>, TRUE,
           <<SP, "a", NL, NL, NL, NL, "b", SP, NL>>, <<>>, <<>>, <<>>, <<>>),
      File(<<"R", ".", "T", "X", "T">>, TRUE, <<>>, <<>>, <<>>, <<>>, <<>>),
      File(<<"r", ".", "d", "o", "c", "x">>, TRUE, <<>>,
           << <<"P", "1">>, <<>>, <<>>, <<>>, <<"P", "2", SP, SP>> >>,
           <<>>, <<>>, <<>>),
      File(<<"s", ".", "d", "o", "c", "x">>, TRUE, <<>>,
           << Para1 \o <<NL, NL, NL>>, Para2 \o <<SP, SP, SP>> >>,
           <<>>, <<>>, <<>>),
      File(<<"r", ".", "d", "o", "c">>, TRUE, <<>>,
           << <<"P", "1">> >>, <<>>, <<>>, <<>>),
      File(<<"r", ".", "p", "n", "g">>, TRUE, <<>>, <<>>, <<>>, <<>>,
           <<"i", "m", "g", NL>>),
      File(<<"r", ".", "J", "P", "G">>, TRUE, <<>>, <<>>, <<>>, <<>>, <<SP>>),
      File(<<"r", ".", "x", "y", "z">>, TRUE, <<>>, <<>>, <<>>, <<>>, <<>>),
      File(<<"r">>, TRUE, <<>>, <<>>, <<>>, <<>>, <<>>),
      File(<<".", "p", "d", "f">>, TRUE, <<>>, <<>>, <<>>, <<>>, <<>>),
      File(<<"d", ".", "p", "d", "f", "/", "r">>, TRUE, <<>>, <<>>, <<>>, <<>>, <<>>),
      File(PdfPath, FALSE, <<>>, <<>>, <<>>, <<>>, <<>>),
      File(<<"r", ".", "x", "y", "z">>, FALSE, <<>>, <<>>, <<>>, <<>>, <<>>) }

\* ---------------------------------------------------------------- state
\* The threads that may call process_document.
Calls == {"t1", "t2"}

\* How an external command can end: normally, or by subprocess.run raising
\* CalledProcessError (non-zero exit), FileNotFoundError (no such command)
\* or another exception.
ToolStatus == {"ok", "CalledProcessError", "FileNotFoundError", "Exception"}

VARIABLES
    scratch,    \* the directory /tmp/pdf_pages_for_ocr: whether it exists,
                \* its page images, name -> what the OCR engine reads off it,
                \* and for each image the thread whose pdftoppm wrote it
    frame,      \* per thread: the locals of process_document / process_pdf,
                \* the position in them, and what the caller gets back
    obs,        \* per thread: what the current call did so far (the tools it
                \* invoked, the pages it wrote, the faults it met,
                \* the positions of image_files whose OCR failed, the image
                \* contents the OCR engine was given, the branch that
                \* process_document took, where the process died)
    sample,     \* an input of _clean_text
    cleaned,    \* _clean_text(sample)
    recleaned,  \* _clean_text(cleaned)
    stage,      \* how far the normaliser has been applied to sample
    rfp         \* per thread: the activation of AiRfpAgent.process_rfp (the
                \* step it is at, its locals, what its caller gets back)

vars == <<scratch, frame, obs, sample, cleaned, recleaned, stage, rfp>>
cleanvars == <<sample, cleaned, recleaned, stage>>

IdleFrame ==
    [pc |-> "idle", file_path |-> NoFile, extracted_text |-> <<>>,
     ocr_texts |-> <<>>, image_files |-> <<>>, i |-> 0,
     result |-> None, raised |-> FALSE]

NoObs ==
    [invoked |-> <<>>, written |-> {}, faults |-> {}, ocr_failed |-> {},
     images |-> <<>>, route |-> "none", crash |-> "none"]

\* process_rfp is not running; its locals as lines 59-67 initialise them.
IdleRfp ==
    [pc |-> "idle", step |-> 0, processed_text |-> None, failed |-> 0,
     aborted |-> FALSE, kb_update |-> FALSE, output_file_paths |-> "None",
     raised |-> FALSE]

Init ==
    /\ scratch = [exists |-> FALSE, files |-> <<>>, writer |-> <<>>]
    /\ frame = [c \in Calls |-> IdleFrame]
    /\ obs = [c \in Calls |-> NoObs]
    /\ sample = <<>>
    /\ cleaned = <<>>
    /\ recleaned = <<>>
    /\ stage = "off"
    /\ rfp = [c \in Calls |-> IdleRfp]

Log(c, tool, arg) == Append(obs[c].invoked, [tool |-> tool, arg |-> arg])

\* The except clauses of the fallback (module_logic.py:118-126): all three
\* return the direct text, or None when it is empty.
ExceptReturn(f) ==
    [f EXCEPT !.pc = "done", !.result = OrNone(f.extracted_text)]

\* pdftoppm has written the first k pages: page n goes to the image named n,
\* replacing an image of that name; other images stay.
WritePages(files, pages, k) ==
    [n \in (DOMAIN files) \cup (1..k) |-> IF n <= k THEN pages[n] ELSE files[n]]

\* The threads that wrote the images, after thread c's pdftoppm has written
\* the first k pages.
WrittenBy(writer, c, k) ==
    [n \in (DOMAIN writer) \cup (1..k) |-> IF n <= k THEN c ELSE writer[n]]

\* os.remove(img_path)
RemoveFile(files, name) ==
    [n \in (DOMAIN files) \ {name} |-> files[n]]

\* --------------------------------------------------------------- actions
\* A caller invokes process_document(file_path).
Start(c, f) ==
    /\ frame[c].pc = "idle"
    /\ frame' = [frame EXCEPT
                   ![c] = [IdleFrame EXCEPT !.pc = "process_document",
                                            !.file_path = f]]
    /\ obs' = [obs EXCEPT ![c] = NoObs]
    /\ UNCHANGED <<scratch, cleanvars, rfp>>

\* process_document: existence check and routing (module_logic.py:130-150).
process_document(c) ==
    /\ frame[c].pc = "process_document"
    /\ LET f == frame[c].file_path
           to == Dispatch(f.exists, f.path)
       IN  /\ frame' = [frame EXCEPT
                          ![c] = IF to \in {"missing", "unsupported"}
                                 THEN [@ EXCEPT !.pc = "done", !.result = None]
                                 ELSE [@ EXCEPT !.pc = to]]
           /\ obs' = [obs EXCEPT ![c].route = to]
    /\ UNCHANGED <<scratch, cleanvars, rfp>>

\* process_txt keeping a copy of what it read in the scratch directory.
process_txt_leaves_copy(c) ==
    /\ frame[c].pc = "process_txt"
    /\ frame' = [frame EXCEPT
                   ![c].pc = "done",
                   ![c].result = Str(_clean_text(frame[c].file_path.text))]
    /\ scratch' = [scratch EXCEPT
                     !.exists = TRUE,
                     !.files = WritePages(@, <<frame[c].file_path.text>>, 1),
                     !.writer = WrittenBy(@, c, 1)]
    /\ UNCHANGED <<obs, cleanvars, rfp>>

\* process_txt (module_logic.py:36-44): ok is whether open/read succeed.
process_txt(c) ==
    /\ frame[c].pc = "process_txt"
    /\ \E ok \in BOOLEAN :
          /\ frame' = [frame EXCEPT
                         ![c].pc = "done",
                         ![c].result =
                             IF ok THEN Str(_clean_text(frame[c].file_path.text))
                             ELSE None]
          /\ obs' = [obs EXCEPT
                       ![c].faults = IF ok THEN @ ELSE @ \cup {"read"}]
    /\ UNCHANGED <<scratch, cleanvars, rfp>>

\* process_docx (module_logic.py:46-56): ok is whether parsing succeeds.
process_docx(c) ==
    /\ frame[c].pc = "process_docx"
    /\ \E ok \in BOOLEAN :
          /\ frame' = [frame EXCEPT
                         ![c].pc = "done",
                         ![c].result =
                             IF ok
                             THEN Str(_clean_text(
                                      Join(<<NL>>, frame[c].file_path.paras)))
                             ELSE None]
          /\ obs' = [obs EXCEPT
                       ![c].faults = IF ok THEN @ ELSE @ \cup {"parse"}]
    /\ UNCHANGED <<scratch, cleanvars, rfp>>

\* process_document on an image file (module_logic.py:145-147).
ocr_image(c) ==
    /\ frame[c].pc = "ocr_image"
    /\ \E ok \in BOOLEAN :
          /\ frame' = [frame EXCEPT
                         ![c].pc = "done",
                         ![c].result =
                             _ocr_image_to_text(frame[c].file_path.image, ok)]
          /\ obs' = [obs EXCEPT
                       ![c].invoked = Log(c, "ocr", 0),
                       ![c].ocr_failed = IF ok THEN @ ELSE @ \cup {0}]
    /\ UNCHANGED <<scratch, cleanvars, rfp>>

\* Direct extraction that runs pdftotext a second time when the first run
\* fails.
pdftotext_retries_once(c) ==
    /\ frame[c].pc = "pdftotext"
    /\ \E status \in ToolStatus :
          LET extracted_text ==
                  IF status = "ok"
                  THEN _clean_text(frame[c].file_path.direct)
                  ELSE <<>>
              again == status # "ok" /\ obs[c].invoked = <<>>
          IN  /\ frame' = [frame EXCEPT
                             ![c] = IF again THEN @
                                    ELSE IF Insufficient(extracted_text)
                                    THEN [@ EXCEPT
                                            !.pc = "makedirs",
                                            !.extracted_text = extracted_text]
                                    ELSE [@ EXCEPT
                                            !.pc = "done",
                                            !.extracted_text = extracted_text,
                                            !.result = OrNone(extracted_text)]]
              /\ obs' = [obs EXCEPT
                           ![c].invoked = Log(c, "pdftotext", 0),
                           ![c].faults =
                               IF status = "ok" THEN @ ELSE @ \cup {"pdftotext"}]
    /\ UNCHANGED <<scratch, cleanvars, rfp>>

\* process_pdf, direct extraction and the sufficiency test
\* (module_logic.py:74-91, 128).
pdftotext(c) ==
    /\ frame[c].pc = "pdftotext"
    /\ \E status \in ToolStatus :
          LET extracted_text ==
                  IF status = "ok"
                  THEN _clean_text(frame[c].file_path.direct)
                  ELSE <<>>
          IN  /\ frame' = [frame EXCEPT
                             ![c] = IF Insufficient(extracted_text)
                                    THEN [@ EXCEPT
                                            !.pc = "makedirs",
                                            !.extracted_text = extracted_text]
                                    ELSE [@ EXCEPT
                                            !.pc = "done",
                                            !.extracted_text = extracted_text,
                                            !.result = OrNone(extracted_text)]]
              /\ obs' = [obs EXCEPT
                           ![c].invoked = Log(c, "pdftotext", 0),
                           ![c].faults =
                               IF status = "ok" THEN @ ELSE @ \cup {"pdftotext"}]
    /\ UNCHANGED <<scratch, cleanvars, rfp>>

\* os.makedirs(temp_image_dir, exist_ok=True) (module_logic.py:92-94).  It is
\* outside the try block: when the directory cannot be created the OSError
\* leaves process_pdf and process_document.
makedirs(c) ==
    /\ frame[c].pc = "makedirs"
    /\ \E ok \in BOOLEAN :
          /\ ok \/ ~scratch.exists
          /\ IF ok
             THEN /\ scratch' = [scratch EXCEPT !.exists = TRUE]
                  /\ frame' = [frame EXCEPT ![c].pc = "pdftoppm",
                                            ![c].ocr_texts = <<>>]
                  /\ UNCHANGED obs
             ELSE /\ frame' = [frame EXCEPT ![c].pc = "done",
                                            ![c].raised = TRUE]
                  /\ obs' = [obs EXCEPT ![c].faults = @ \cup {"makedirs"}]
                  /\ UNCHANGED scratch
    /\ UNCHANGED <<cleanvars, rfp>>

\* subprocess.run(["pdftoppm", ...], check=True) (module_logic.py:98): the
\* tool writes the first k pages and ends with status; k is every page when
\* it ends normally and none when it could not be started.
pdftoppm(c) ==
    /\ frame[c].pc = "pdftoppm"
    /\ \E status \in ToolStatus :
       \E k \in 0..Len(frame[c].file_path.pages) :
          /\ status = "ok" => k = Len(frame[c].file_path.pages)
          /\ status \in {"FileNotFoundError", "Exception"} => k = 0
          /\ ~scratch.exists => (status = "CalledProcessError" /\ k = 0)
          /\ scratch' = [scratch EXCEPT
                           !.files = WritePages(@, frame[c].file_path.pages, k),
                           !.writer = WrittenBy(@, c, k)]
          /\ frame' = [frame EXCEPT
                         ![c] = IF status = "ok"
                                THEN [@ EXCEPT !.pc = "listdir"]
                                ELSE ExceptReturn(@)]
          /\ obs' = [obs EXCEPT
                       ![c].invoked = Log(c, "pdftoppm", 0),
                       ![c].written = 1..k,
                       ![c].faults =
                           IF status = "ok" THEN @ ELSE @ \cup {"pdftoppm"}]
    /\ UNCHANGED <<cleanvars, rfp>>

\* image_files = sorted(... os.listdir(temp_image_dir) ...) and the
\* no-image return (module_logic.py:99-104).
listdir(c) ==
    /\ frame[c].pc = "listdir"
    /\ \E ok \in BOOLEAN :
          /\ ok => scratch.exists
          /\ LET image_files == sorted(DOMAIN scratch.files)
             IN  frame' = [frame EXCEPT
                             ![c] = IF ~ok \/ image_files = <<>>
                                    THEN ExceptReturn(@)
                                    ELSE [@ EXCEPT !.pc = "ocr_page",
                                                   !.image_files = image_files,
                                                   !.i = 1]]
          /\ obs' = [obs EXCEPT
                       ![c].faults = IF ok THEN @ ELSE @ \cup {"listdir"}]
    /\ UNCHANGED <<scratch, cleanvars, rfp>>

\* The loop body up to ocr_texts.append (module_logic.py:106-109).
ocr_page(c) ==
    /\ frame[c].pc = "ocr_page"
    /\ LET img_path == frame[c].image_files[frame[c].i]
       IN  \E ok \in BOOLEAN :
              /\ ok => img_path \in DOMAIN scratch.files
              /\ LET page_text ==
                         _ocr_image_to_text(
                             IF ok THEN scratch.files[img_path] ELSE <<>>, ok)
                 IN  frame' = [frame EXCEPT
                                 ![c].pc = "remove_page",
                                 ![c].ocr_texts = Append(@, page_text)]
              /\ obs' = [obs EXCEPT
                           ![c].invoked = Log(c, "ocr", img_path),
                           ![c].images =
                               Append(@, IF img_path \in DOMAIN scratch.files
                                         THEN scratch.files[img_path]
                                         ELSE <<>>),
                           ![c].ocr_failed =
                               IF ok THEN @ ELSE @ \cup {frame[c].i}]
    /\ UNCHANGED <<scratch, cleanvars, rfp>>

\* os.remove(img_path) and the loop's next iteration (module_logic.py:110).
remove_page(c) ==
    /\ frame[c].pc = "remove_page"
    /\ LET img_path == frame[c].image_files[frame[c].i]
       IN  \E ok \in BOOLEAN :
              /\ ok => img_path \in DOMAIN scratch.files
              /\ IF ok
                 THEN /\ scratch' = [scratch EXCEPT
                                       !.files = RemoveFile(@, img_path),
                                       !.writer = RemoveFile(@, img_path)]
                      /\ frame' = [frame EXCEPT
                                     ![c].i = @ + 1,
                                     ![c].pc =
                                         IF frame[c].i = Len(frame[c].image_files)
                                         THEN "cleanup" ELSE "ocr_page"]
                      /\ UNCHANGED obs
                 ELSE /\ frame' = [frame EXCEPT ![c] = ExceptReturn(@)]
                      /\ obs' = [obs EXCEPT ![c].faults = @ \cup {"remove"}]
                      /\ UNCHANGED scratch
    /\ UNCHANGED <<cleanvars, rfp>>

\* After the loop (module_logic.py:112-117, 128): remove the directory when
\* it is empty, join the page texts, normalise, return.  fault says which of
\* os.listdir and os.rmdir raises; str.join raises TypeError on an item that
\* is not a str.
cleanup(c) ==
    /\ frame[c].pc = "cleanup"
    /\ \E fault \in {"none", "listdir", "rmdir"} :
          LET empty == DOMAIN scratch.files = {}
              joinable == \A k \in 1..Len(frame[c].ocr_texts) :
                              frame[c].ocr_texts[k].some
              texts == [k \in 1..Len(frame[c].ocr_texts) |->
                           frame[c].ocr_texts[k].text]
              extracted_text == _clean_text(Join(PageBreak, texts))
          IN  /\ fault = "none" => scratch.exists
              /\ fault = "rmdir" => scratch.exists /\ empty
              /\ scratch' = IF fault = "none" /\ empty
                            THEN [scratch EXCEPT !.exists = FALSE]
                            ELSE scratch
              /\ frame' = [frame EXCEPT
                             ![c] = IF fault = "none" /\ joinable
                                    THEN [@ EXCEPT
                                            !.pc = "done",
                                            !.extracted_text = extracted_text,
                                            !.result = OrNone(extracted_text)]
                                    ELSE ExceptReturn(@)]
              /\ obs' = [obs EXCEPT
                           ![c].faults =
                               IF fault = "none" THEN @ ELSE @ \cup {"cleanup"}]
    /\ UNCHANGED <<cleanvars, rfp>>

\* The caller has the outcome; the thread is free for the next call.
Return(c) ==
    /\ frame[c].pc = "done"
    /\ frame' = [frame EXCEPT ![c] = IdleFrame]
    /\ obs' = [obs EXCEPT ![c] = NoObs]
    /\ UNCHANGED <<scratch, cleanvars, rfp>>

Step(c) ==
    \/ \E f \in Inputs : Start(c, f)
    \/ process_document(c)
    \/ process_txt(c)
    \/ process_docx(c)
    \/ ocr_image(c)
    \/ pdftotext(c)
    \/ makedirs(c)
    \/ pdftoppm(c)
    \/ listdir(c)
    \/ ocr_page(c)
    \/ remove_page(c)
    \/ cleanup(c)
    \/ Return(c)

\* Execution is single-threaded: one thread calls process_document, again
\* and again, on any of the inputs.
Next == Step("t1")

Spec == Init /\ [][Next]_vars

\* ------------------------------------------------------- process crashes
\* The process dies while thread c is inside process_document: the call
\* never returns and the scratch directory stays as it is.
Crash(c) ==
    /\ frame[c].pc \notin {"idle", "done", "crashed"}
    /\ frame' = [frame EXCEPT ![c].pc = "crashed"]
    /\ obs' = [obs EXCEPT ![c].crash = frame[c].pc]
    /\ UNCHANGED <<scratch, cleanvars, rfp>>

\* The agent is started again: a new process, a new InputProcessor.
Restart(c) ==
    /\ frame[c].pc = "crashed"
    /\ frame' = [frame EXCEPT ![c] = IdleFrame]
    /\ obs' = [obs EXCEPT ![c] = NoObs]
    /\ UNCHANGED <<scratch, cleanvars, rfp>>

NextCrash == Step("t1") \/ Crash("t1") \/ Restart("t1")

SpecCrash == Init /\ [][NextCrash]_vars

\* --------------------------------------------------- concurrent requests
\* The documents of two requests served at the same time by the one
\* InputProcessor of the agent: two scanned PDFs with different pages, and a
\* text file.
ConcurrentInputs ==
    { File(PdfPath, TRUE, <<>>, <<>>, <<>>, << PageA \o <<NL>>, PageB >>, <<>>),
      File(<<"s", ".", "p", "d", "f">>, TRUE, <<>>, <<>>, <<SP, "H", "i", NL>>,
           << <<"x">> >>, <<>>),
      File(<<"r", ".", "t", "x", "t">>, TRUE,
           <<SP, "a", NL, NL, NL, NL, "b", SP, NL>>, <<>>, <<>>, <<>>, <<>>) }

\* One step of a request handler's thread.
Serve(c) ==
    \/ \E f \in ConcurrentInputs : Start(c, f)
    \/ process_document(c)
    \/ process_txt(c)
    \/ pdftotext(c)
    \/ makedirs(c)
    \/ pdftoppm(c)
    \/ listdir(c)
    \/ ocr_page(c)
    \/ remove_page(c)
    \/ cleanup(c)
    \/ Return(c)

\* The threads of the server interleave at every filesystem operation and
\* tool invocation.
NextConcurrent == \E c \in Calls : Serve(c)

SpecConcurrent == Init /\ [][NextConcurrent]_vars

\* ------------------------------------------------------------ process_rfp
\* `not processed_text` (agent.py:73): None and the empty string are both
\* false.
Falsy(value) == ~value.some \/ value.text = <<>>

\* What the output generator of step 8 hands back (agent.py:125).
OutputResults == {"None", "paths"}

\* Step 1 with the call of process_document outside the try block: its
\* exception leaves process_rfp.
AfterStep1_outside_try(r, result, raised) ==
    IF raised THEN [r EXCEPT !.pc = "returned", !.failed = 1, !.raised = TRUE]
    ELSE IF Falsy(result)
    THEN [r EXCEPT !.pc = "returned", !.processed_text = result,
                   !.aborted = TRUE]
    ELSE [r EXCEPT !.step = 2, !.processed_text = result]

\* process_rfp once process_document is back (agent.py:72-76, 134-135): an
\* exception is caught by the except clause of steps 1-8, which leads to
\* step 9; a false result returns None at once; otherwise step 2 follows.
AfterStep1(r, result, raised) ==
    IF raised THEN [r EXCEPT !.step = 9, !.failed = 1]
    ELSE IF Falsy(result)
    THEN [r EXCEPT !.pc = "returned", !.processed_text = result,
                   !.aborted = TRUE]
    ELSE [r EXCEPT !.step = 2, !.processed_text = result]

\* A caller invokes process_rfp(rfp_file_path, ...); step 1 calls
\* process_document(file_path=rfp_file_path) (agent.py:54-72).
process_rfp(c, f) ==
    /\ rfp[c].pc = "idle"
    /\ frame[c].pc = "idle"
    /\ rfp' = [rfp EXCEPT ![c] = [IdleRfp EXCEPT !.pc = "running", !.step = 1]]
    /\ frame' = [frame EXCEPT
                   ![c] = [IdleFrame EXCEPT !.pc = "process_document",
                                            !.file_path = f]]
    /\ obs' = [obs EXCEPT ![c] = NoObs]
    /\ UNCHANGED <<scratch, cleanvars>>

\* Step 1 after the call (agent.py:72-76).
step1_input_processing(c) ==
    /\ rfp[c].pc = "running" /\ rfp[c].step = 1
    /\ frame[c].pc = "done"
    /\ rfp' = [rfp EXCEPT
                 ![c] = AfterStep1(@, frame[c].result, frame[c].raised)]
    /\ frame' = [frame EXCEPT ![c] = IdleFrame]
    /\ obs' = [obs EXCEPT ![c] = NoObs]
    /\ UNCHANGED <<scratch, cleanvars>>

\* Steps 2-8 each in a try block of its own: a step that raises is logged
\* and the next step runs.
steps_2_to_8_continue_after_raise(c) ==
    /\ rfp[c].pc = "running" /\ rfp[c].step \in 2..8
    /\ \E ok \in BOOLEAN : \E out \in OutputResults :
          LET r == rfp[c]
              failed == IF ok THEN r.failed ELSE r.step
          IN  rfp' = [rfp EXCEPT
                        ![c] = IF r.step = 8
                               THEN [r EXCEPT !.step = 9, !.failed = failed,
                                              !.output_file_paths =
                                                  IF ok THEN out ELSE "None"]
                               ELSE [r EXCEPT !.step = r.step + 1,
                                              !.failed = failed]]
    /\ UNCHANGED <<scratch, frame, obs, cleanvars>>

\* One of the steps 2-8 (agent.py:78-135): the step's module does its work,
\* or raises, which the except clause catches before step 9; step 8 assigns
\* output_file_paths.
steps_2_to_8(c) ==
    /\ rfp[c].pc = "running" /\ rfp[c].step \in 2..8
    /\ \E ok \in BOOLEAN : \E out \in OutputResults :
          LET r == rfp[c]
          IN  rfp' = [rfp EXCEPT
                        ![c] = IF ~ok
                               THEN [r EXCEPT !.step = 9, !.failed = r.step]
                               ELSE IF r.step = 8
                               THEN [r EXCEPT !.step = 9,
                                              !.output_file_paths = out]
                               ELSE [r EXCEPT !.step = r.step + 1]]
    /\ UNCHANGED <<scratch, frame, obs, cleanvars>>

\* Step 9 and the return (agent.py:137-198): the knowledge-base update runs
\* in a try block of its own, whose except clause only logs.
step9_knowledge_base_update(c) ==
    /\ rfp[c].pc = "running" /\ rfp[c].step = 9
    /\ rfp' = [rfp EXCEPT ![c].pc = "returned", ![c].kb_update = TRUE]
    /\ UNCHANGED <<scratch, frame, obs, cleanvars>>

\* The caller of process_rfp has the outcome.
process_rfp_return(c) ==
    /\ rfp[c].pc = "returned"
    /\ rfp' = [rfp EXCEPT ![c] = IdleRfp]
    /\ UNCHANGED <<scratch, frame, obs, cleanvars>>

\* process_rfp called again and again by one thread, on any of the inputs.
NextRfp ==
    \/ \E f \in Inputs : process_rfp("t1", f)
    \/ process_document("t1")
    \/ process_txt("t1")
    \/ process_docx("t1")
    \/ ocr_image("t1")
    \/ pdftotext("t1")
    \/ makedirs("t1")
    \/ pdftoppm("t1")
    \/ listdir("t1")
    \/ ocr_page("t1")
    \/ remove_page("t1")
    \/ cleanup("t1")
    \/ step1_input_processing("t1")
    \/ steps_2_to_8("t1")
    \/ step9_knowledge_base_update("t1")
    \/ process_rfp_return("t1")

SpecRfp == Init /\ [][NextRfp]_vars

\* ------------------------------------------------ the normaliser on its own
Texts == UNION { [1..n -> Alphabet] : n \in 0..MaxLen }

InitClean ==
    /\ scratch = [exists |-> FALSE, files |-> <<>>, writer |-> <<>>]
    /\ frame = [c \in Calls |-> IdleFrame]
    /\ obs = [c \in Calls |-> NoObs]
    /\ sample \in Texts
    /\ cleaned = <<>>
    /\ recleaned = <<>>
    /\ stage = "input"
    /\ rfp = [c \in Calls |-> IdleRfp]

Normalize ==
    /\ stage = "input"
    /\ cleaned' = _clean_text(sample)
    /\ stage' = "once"
    /\ UNCHANGED <<scratch, frame, obs, sample, recleaned, rfp>>

Renormalize ==
    /\ stage = "once"
    /\ recleaned' = _clean_text(cleaned)
    /\ stage' = "twice"
    /\ UNCHANGED <<scratch, frame, obs, sample, cleaned, rfp>>

NextClean == Normalize \/ Renormalize

SpecClean == InitClean /\ [][NextClean]_vars

\* =================================================================== claims
Done(c) == frame[c].pc = "done"

Invoked(c, tool) ==
    \E k \in 1..Len(obs[c].invoked) : obs[c].invoked[k].tool = tool

\* The call of thread c was routed to process_pdf.
IsPdfCall(c) == Invoked(c, "pdftotext")

\* The normalised direct-extraction text of the call: what pdftotext printed,
\* normalised, and nothing when the tool failed.
DirectText(c) ==
    IF "pdftotext" \in obs[c].faults THEN <<>>
    ELSE _clean_text(frame[c].file_path.direct)

\* The call met no failure other than (possibly) that of pdftotext and of OCR.
NoFallbackFault(c) == obs[c].faults \subseteq {"pdftotext"}

\* C1: process_document returns a text or None and never raises to its
\* caller, whatever the filesystem and the three tools do, the failure to
\* create the scratch directory included.
C1_NeverRaises ==
    \A c \in Calls : Done(c) => ~frame[c].raised

\* C2: when the normalised direct text has 100 or more characters, neither
\* pdftoppm nor OCR is invoked during the call, and the call returns that
\* normalised direct text.
C2_SufficientDirectTextSkipsFallback ==
    \A c \in Calls :
        IsPdfCall(c) /\ Len(DirectText(c)) >= Threshold
        => /\ ~Invoked(c, "pdftoppm")
           /\ ~Invoked(c, "ocr")
           /\ frame[c].pc = "done"
           /\ ~frame[c].raised
           /\ frame[c].result = Str(DirectText(c))

\* A PDF call has returned the direct text of exactly Threshold characters,
\* which normalisation had to shorten to that length.
C2_Witness ==
    \E c \in Calls :
        /\ Done(c) /\ IsPdfCall(c)
        /\ Len(DirectText(c)) = Threshold
        /\ Len(frame[c].file_path.direct) > Threshold
        /\ frame[c].result = Str(DirectText(c))

\* C3: when pdftotext fails or its normalised output is empty or shorter
\* than 100 characters, nothing is propagated to the caller and the fallback
\* is attempted: by the time the call ends pdftoppm has been invoked.
C3_InsufficientDirectTextInvokesRasterizer ==
    \A c \in Calls :
        Done(c) /\ IsPdfCall(c) /\ Len(DirectText(c)) < Threshold
        => ~frame[c].raised /\ Invoked(c, "pdftoppm")

\* The names of the images the call handed to OCR, in the order of the calls.
OcrOrder(c) ==
    LET at == { k \in 1..Len(obs[c].invoked) : obs[c].invoked[k].tool = "ocr" }
        ks == sorted(at)
    IN  [j \in 1..Len(ks) |-> obs[c].invoked[ks[j]].arg]

\* pdftoppm ended normally in the call and rasterized n >= 1 pages.
Rasterized(c) ==
    /\ Invoked(c, "pdftoppm")
    /\ "pdftoppm" \notin obs[c].faults
    /\ Len(frame[c].file_path.pages) >= 1

\* The text _ocr_image_to_text yields for page k of the call's PDF: the
\* normalised text of the page, or the empty text when OCR failed on it.
PageText(c, k) ==
    IF k \in obs[c].ocr_failed THEN <<>>
    ELSE _clean_text(frame[c].file_path.pages[k])

\* C4: when the fallback rasterizes n >= 1 pages (and meets no later
\* failure), OCR runs on the page images 1..n in ascending order and the call
\* returns normalize(t1 + M + ... + tn), None standing for an empty result;
\* for the pages "Page A", "Page B" that is "Page A" + M + "Page B".
C4_FallbackJoinsPagesInOrder ==
    \A c \in Calls :
        Done(c) /\ Rasterized(c) /\ NoFallbackFault(c)
        => LET n == Len(frame[c].file_path.pages)
           IN  /\ OcrOrder(c) = [k \in 1..n |-> k]
               /\ frame[c].result =
                      OrNone(_clean_text(
                          Join(PageBreak, [k \in 1..n |-> PageText(c, k)])))
               /\ (frame[c].file_path.pages = << PageA \o <<NL>>, PageB >>
                   /\ obs[c].ocr_failed = {}
                   => frame[c].result = Str(PageA \o PageBreak \o PageB))

\* C5: after a fallback run has returned, successfully or after failing
\* part-way, the scratch directory holds none of the page images the run
\* produced.
C5_NoLeftoverPageImages ==
    \A c \in Calls :
        Done(c) /\ Invoked(c, "pdftoppm")
        => obs[c].written \cap DOMAIN scratch.files = {}

\* C6: when the fallback runs and the OCR result of every rasterized page is
\* empty, the call returns the direct text when that is non-empty and None
\* only when the direct text is empty too.
C6_EmptyOcrFallsBackToDirectText ==
    \A c \in Calls :
        /\ Done(c) /\ Rasterized(c) /\ NoFallbackFault(c)
        /\ \A k \in 1..Len(frame[c].ocr_texts) :
               frame[c].ocr_texts[k] = Str(<<>>)
        => frame[c].result = OrNone(DirectText(c))

\* The extensions process_document recognises.
Recognized ==
    { <<".", "t", "x", "t">>, <<".", "d", "o", "c", "x">>, <<".", "p", "d", "f">> }
        \cup ImageExtensions

\* C7: for a path that does not exist, and for an existing file with an
\* unrecognised extension, process_document returns None without raising;
\* no strategy is entered and no external tool is invoked.
C7_MissingOrUnsupportedReturnsNone ==
    \A c \in Calls :
        LET f == frame[c].file_path
        IN  /\ frame[c].pc \notin {"idle", "process_document"}
            /\ (~f.exists \/ splitext(lower(f.path)) \notin Recognized)
            => /\ frame[c].pc = "done"
               /\ frame[c].result = None
               /\ ~frame[c].raised
               /\ obs[c].invoked = <<>>

\* A call on a missing file with a .pdf name has returned None.
C7_Witness ==
    \E c \in Calls :
        /\ Done(c)
        /\ ~frame[c].file_path.exists
        /\ frame[c].file_path.path = PdfPath
        /\ frame[c].result = None

\* C8: normalisation is idempotent: _clean_text(_clean_text(x)) equals
\* _clean_text(x) for every input x.
C8_CleanTextIdempotent ==
    stage = "twice" => recleaned = cleaned

\* The normaliser was applied twice to a text with a run of three or more
\* line breaks between two letters, which the first application changed.
C8_Witness ==
    /\ stage = "twice"
    /\ Len(sample) >= 5
    /\ Head(sample) = "a" /\ sample[Len(sample)] = "a"
    /\ \E i \in 1..Len(sample) : NewlineRun(sample, i) >= 3
    /\ cleaned # sample
    /\ recleaned = cleaned

\* x without every line break that follows two line breaks directly: each
\* maximal run of three or more line breaks is cut down to two.
Collapsed(x) ==
    LET kept == { p \in 1..Len(x) :
                     ~(p >= 3 /\ x[p] = NL /\ x[p - 1] = NL /\ x[p - 2] = NL) }
        ks == sorted(kept)
    IN  [j \in 1..Len(ks) |-> x[ks[j]]]

\* y from its first to its last character that is not whitespace.
Trimmed(y) ==
    LET solid == { p \in 1..Len(y) : y[p] \notin Whitespace }
    IN  IF solid = {} THEN <<>>
        ELSE SubSeq(y, CHOOSE p \in solid : \A q \in solid : p <= q,
                       CHOOSE p \in solid : \A q \in solid : q <= p)

\* C9: _clean_text(x) is x with every maximal run of three or more line
\* breaks replaced by two and then leading and trailing whitespace removed;
\* so it has no run of three line breaks and no whitespace at either end.
C9_CleanTextCollapsesAndStrips ==
    stage \in {"once", "twice"}
    => /\ cleaned = Trimmed(Collapsed(sample))
       /\ \A p \in 1..Len(cleaned) : NewlineRun(cleaned, p) < 3
       /\ cleaned # <<>> => /\ cleaned[1] \notin Whitespace
                            /\ cleaned[Len(cleaned)] \notin Whitespace

\* The normaliser was applied to " a\n\n\n\na\n" and gave "a\n\na".
C9_Witness ==
    /\ stage = "once"
    /\ sample = <<SP, "a", NL, NL, NL, NL, "a", NL>>
    /\ cleaned = <<"a", NL, NL, "a">>

\* C10: _ocr_image_to_text returns the empty string, not None and not an
\* exception, when OCR fails; and an OCR failure in the fallback loop does
\* not end the loop: in a call whose only failures are OCR failures every
\* listed image is handed to OCR once, in order, and deleted, and the call
\* returns the normalised join of the page texts, the failed pages
\* contributing the empty string.
C10_OcrFailureYieldsEmptyPage ==
    \A c \in Calls :
        /\ \A k \in obs[c].ocr_failed :
               k = 0 \/ k > Len(frame[c].ocr_texts)
                     \/ frame[c].ocr_texts[k] = Str(<<>>)
        /\ Done(c) /\ 0 \in obs[c].ocr_failed
           => frame[c].result = Str(<<>>) /\ ~frame[c].raised
        /\ /\ Done(c) /\ NoFallbackFault(c)
           /\ frame[c].image_files # <<>>
           /\ obs[c].ocr_failed # {}
           => LET n == Len(frame[c].image_files)
              IN  /\ Len(frame[c].ocr_texts) = n
                  /\ OcrOrder(c) = frame[c].image_files
                  /\ \A k \in 1..n :
                         frame[c].image_files[k] \notin DOMAIN scratch.files
                  /\ ~frame[c].raised
                  /\ frame[c].result =
                         OrNone(_clean_text(Join(PageBreak,
                             [k \in 1..n |->
                                 IF k \in obs[c].ocr_failed THEN <<>>
                                 ELSE _clean_text(obs[c].images[k])])))

\* A fallback over several images has returned text although OCR failed on
\* one of them and succeeded on another.
C10_Witness ==
    \E c \in Calls :
        /\ Done(c) /\ NoFallbackFault(c)
        /\ Len(frame[c].image_files) >= 2
        /\ obs[c].ocr_failed # {}
        /\ \E k \in 1..Len(frame[c].image_files) :
               k \notin obs[c].ocr_failed /\ frame[c].ocr_texts[k].text # <<>>
        /\ frame[c].result.some

\* Image n of the scratch directory belongs to the fallback thread d is
\* running: d's pdftoppm wrote it during the current call, nothing has
\* replaced it since, and the call has not ended.
Live(d, n) ==
    /\ frame[d].pc \notin {"idle", "done"}
    /\ n \in DOMAIN scratch.files
    /\ n \in obs[d].written
    /\ scratch.writer[n] = d

\* C11: when two calls run the OCR fallback at the same time on different
\* documents, no step of one call hands to OCR (and so puts into its
\* output), overwrites or deletes a page image that belongs to the running
\* fallback of the other call.
C11_ConcurrentFallbacksDoNotCollide ==
    [][\A c \in Calls : \A d \in Calls \ {c} :
          frame[c].file_path # frame[d].file_path
          => \A n \in DOMAIN scratch.files :
                 Live(d, n)
                 => /\ ~(ocr_page(c) /\ frame[c].image_files[frame[c].i] = n)
                    /\ ~(pdftoppm(c) /\ n \in obs'[c].written)
                    /\ ~(remove_page(c) /\ n \notin DOMAIN scratch'.files)]_vars

\* process_rfp has returned to its caller after an upstream failure: step 1
\* yielded no text, or one of the steps 1-8 raised.
UpstreamFailure(c) ==
    /\ rfp[c].pc = "returned"
    /\ rfp[c].step = 1 \/ rfp[c].failed \in 1..8

\* C12: whenever one of the steps 1-8 of process_rfp fails, by raising or by
\* step 1 yielding no text, the knowledge-base update of step 9 has been
\* attempted by the time process_rfp returns.
C12_KnowledgeBaseUpdateAfterUpstreamFailure ==
    \A c \in Calls : UpstreamFailure(c) => rfp[c].kb_update

\* C13: process_rfp stops after step 1 only when process_document returned
\* None; after any other result, the empty string included, it goes on to
\* step 2.
C13_OnlyNoneAbortsPipeline ==
    \A c \in Calls :
        rfp[c].pc = "returned" /\ rfp[c].step = 1 /\ ~rfp[c].raised
        => rfp[c].processed_text = None

\* C18: process_rfp never raises to its caller, and after a total failure
\* (step 1 yields no text, or a step raises before step 8 has produced the
\* output files) it returns None.
C18_ProcessRfpNeverRaises ==
    \A c \in Calls :
        /\ ~rfp[c].raised
        /\ UpstreamFailure(c) => rfp[c].output_file_paths = "None"

\* process_rfp has returned None after process_document raised in step 1,
\* the exception caught and step 9 done.
C18_Witness ==
    \E c \in Calls :
        /\ rfp[c].pc = "returned"
        /\ rfp[c].failed = 1
        /\ rfp[c].kb_update
        /\ rfp[c].output_file_paths = "None"
        /\ ~rfp[c].raised

\* The extensions the specification lists as supported input.
SupportedInput == Recognized \cup { <<".", "d", "o", "c">> }

\* C14: process_document routes every existing file whose extension is one
\* of .txt, .docx, .doc, .pdf, .png, .jpg, .jpeg, .tiff, .bmp, .gif to an
\* extraction strategy; an existing .doc file goes to the strategy for
\* word-processor documents and is not reported as unsupported.
C14_SupportedExtensionsAreRouted ==
    \A c \in Calls :
        LET f == frame[c].file_path
        IN  /\ obs[c].route # "none"
            /\ f.exists
            /\ splitext(lower(f.path)) \in SupportedInput
            => /\ obs[c].route \notin {"missing", "unsupported"}
               /\ splitext(lower(f.path)) = <<".", "d", "o", "c">>
                  => obs[c].route = "process_docx"

\* A character and its other letter case.
BothCases(ch) ==
    {ch} \cup { UpperCase[j] : j \in { k \in 1..Len(LowerCase) : LowerCase[k] = ch } }
         \cup { LowerCase[j] : j \in { k \in 1..Len(UpperCase) : UpperCase[k] = ch } }

\* The paths that differ from path in letter case only.
RECURSIVE CaseVariants(_)
CaseVariants(path) ==
    IF path = <<>> THEN { <<>> }
    ELSE { <<h>> \o t : h \in BothCases(Head(path)),
                        t \in CaseVariants(Tail(path)) }

\* C15: routing depends on the lower-cased extension only: the branch
\* process_document takes for an existing path is the branch it takes for
\* every existing path that differs from it in letter case only (.PDF and
\* .pdf, .TXT and .txt, .JPG and .jpg).
C15_RoutingIgnoresLetterCase ==
    \A c \in Calls :
        obs[c].route \notin {"none", "missing"}
        => \A q \in CaseVariants(frame[c].file_path.path) :
               Dispatch(TRUE, q) = obs[c].route

\* A call on R.PDF was routed to process_pdf and has returned text.
C15_Witness ==
    \E c \in Calls :
        /\ frame[c].file_path.path = <<"R", ".", "P", "D", "F">>
        /\ obs[c].route = "pdftotext"
        /\ Done(c) /\ frame[c].result.some

\* The paragraphs k.. of a document, one per line: each but the last is
\* followed by a line break.
RECURSIVE OnePerLine(_, _)
OnePerLine(paras, k) ==
    IF k > Len(paras) THEN <<>>
    ELSE paras[k] \o (IF k < Len(paras) THEN <<NL>> ELSE <<>>)
                  \o OnePerLine(paras, k + 1)

\* C16: process_docx returns normalize(p1 + "\n" + ... + "\n" + pn) for the
\* paragraphs p1..pn of the document in document order, and None when
\* parsing raises; a document of two paragraphs whose content is
\* "Para1\n\n\n\nPara2   " yields "Para1\n\nPara2".
C16_DocxJoinsParagraphsInOrder ==
    \A c \in Calls :
        Done(c) /\ obs[c].route = "process_docx"
        => LET paras == frame[c].file_path.paras
               content == OnePerLine(paras, 1)
           IN  IF "parse" \in obs[c].faults
               THEN frame[c].result = None
               ELSE /\ frame[c].result = Str(_clean_text(content))
                    /\ (Len(paras) = 2
                        /\ content = Para1 \o <<NL, NL, NL, NL>> \o Para2
                                          \o <<SP, SP, SP>>
                        => frame[c].result = Str(Para1 \o <<NL, NL>> \o Para2))

\* The document of two paragraphs with content "Para1\n\n\n\nPara2   " was
\* parsed and "Para1\n\nPara2" returned.
C16_Witness ==
    \E c \in Calls :
        /\ Done(c) /\ obs[c].route = "process_docx"
        /\ "parse" \notin obs[c].faults
        /\ Len(frame[c].file_path.paras) = 2
        /\ OnePerLine(frame[c].file_path.paras, 1)
               = Para1 \o <<NL, NL, NL, NL>> \o Para2 \o <<SP, SP, SP>>
        /\ frame[c].result = Str(Para1 \o <<NL, NL>> \o Para2)

\* The call of thread c is one on a plain-text file.
TxtCall(c) ==
    /\ frame[c].file_path.exists
    /\ splitext(lower(frame[c].file_path.path)) = <<".", "t", "x", "t">>

CrashedBetweenPages(c) ==
    /\ frame[c].pc = "crashed"
    /\ obs[c].crash = "ocr_page"
    /\ frame[c].i >= 2

\* C19: when the process crashes between two pages of the OCR loop, at most
\* one page image of that run is in the scratch directory afterwards, for
\* the next invocation to find.
C19_CrashLeavesAtMostOneImage ==
    \A c \in Calls :
        CrashedBetweenPages(c)
        => Cardinality(obs[c].written \cap DOMAIN scratch.files) <= 1

\* The call ran pdftoppm and the rasterization failed: pdftoppm raised, or
\* ended normally without writing a page image.
RasterizationFailed(c) ==
    /\ Invoked(c, "pdftoppm")
    /\ "pdftoppm" \in obs[c].faults \/ obs[c].written = {}

\* C20: when the rasterizer produces no page image, or raises (non-zero
\* exit, command not found, any other exception), the fallback is given up:
\* nothing is handed to OCR and process_pdf returns the normalised direct
\* text when that is not empty and None otherwise.
C20_FailedRasterizationReturnsDirectText ==
    \A c \in Calls :
        Done(c) /\ RasterizationFailed(c)
        => /\ ~frame[c].raised
           /\ ~Invoked(c, "ocr")
           /\ frame[c].result = OrNone(DirectText(c))

\* The page texts the OCR loop of the call collected, as a list of str.
OcrTexts(c) == [k \in 1..Len(frame[c].ocr_texts) |-> frame[c].ocr_texts[k].text]

\* C21: removing the scratch directory is best-effort: when, after every
\* page has been OCRed, listing or removing the directory fails, the call
\* still returns the normalised join of the page texts, as it would have
\* without the failure.
C21_RemovalFailureKeepsOcrResult ==
    \A c \in Calls :
        Done(c) /\ "cleanup" \in obs[c].faults
        => /\ Len(frame[c].ocr_texts) = Len(frame[c].image_files)
           /\ frame[c].result = OrNone(_clean_text(Join(PageBreak, OcrTexts(c))))

\* The positions of the call's log at which it invoked tool.
Invocations(c, tool) ==
    { k \in 1..Len(obs[c].invoked) : obs[c].invoked[k].tool = tool }

\* C22: no retries: within one process_document call pdftotext is invoked
\* at most once, pdftoppm at most once, and OCR at most once per image,
\* whether or not the invocation failed.
C22_NoRetries ==
    \A c \in Calls :
        /\ Cardinality(Invocations(c, "pdftotext")) <= 1
        /\ Cardinality(Invocations(c, "pdftoppm")) <= 1
        /\ \A j \in Invocations(c, "ocr") : \A k \in Invocations(c, "ocr") :
               j # k => obs[c].invoked[j].arg # obs[c].invoked[k].arg

\* A call has ended in which pdftotext failed and OCR failed on a page of
\* several: each tool was invoked once, OCR once per image.
C22_Witness ==
    \E c \in Calls :
        /\ Done(c)
        /\ "pdftotext" \in obs[c].faults
        /\ obs[c].ocr_failed # {}
        /\ Cardinality(Invocations(c, "pdftotext")) = 1
        /\ Cardinality(Invocations(c, "pdftoppm")) = 1
        /\ Len(frame[c].image_files) >= 2
        /\ Cardinality(Invocations(c, "ocr")) = Len(frame[c].image_files)

\* C23: after a fallback run has returned, on whatever exit path (success,
\* no image, an exception of the rasterizer or of the OCR loop), the
\* scratch directory no longer exists unless it still holds files.
C23_ScratchDirectoryRemoved ==
    \A c \in Calls :
        Done(c) /\ Invoked(c, "pdftoppm") /\ scratch.exists
        => DOMAIN scratch.files # {}

\* C24: the page images a fallback run hands to OCR are exactly those its
\* own pdftoppm rasterized from its PDF: every image it OCRs was written by
\* the run and shows the page of that number, and a run that ends without
\* failure has OCRed each of its pages; an image left behind by an earlier
\* run contributes nothing.
C24_OnlyOwnPagesAreOcred ==
    \A c \in Calls :
        /\ \A k \in 1..Len(obs[c].images) :
               LET n == frame[c].image_files[k]
               IN  /\ n \in obs[c].written
                   /\ obs[c].images[k] = frame[c].file_path.pages[n]
        /\ Done(c) /\ Rasterized(c) /\ NoFallbackFault(c)
           => { frame[c].image_files[k] : k \in 1..Len(obs[c].images) }
                  = obs[c].written

\* C25: in process_rfp the steps 1-8 run in ascending order, each at most
\* once; step k (2 <= k <= 8) starts only after the steps 1..k-1 have
\* completed without raising and step 1 has returned non-empty text; once
\* a step has raised no later step among 2-8 runs; and step 9 starts only
\* after step 8 has completed or a step has raised.
C25_StepsRunInOrder ==
    /\ [](\A c \in Calls :
             rfp[c].pc = "running" /\ rfp[c].step \in 2..8
             => /\ rfp[c].failed = 0
                /\ rfp[c].processed_text.some
                /\ rfp[c].processed_text.text # <<>>)
    /\ [][\A c \in Calls :
             rfp[c].pc = "running" /\ rfp'[c] # rfp[c]
             => /\ rfp'[c].step \in 2..8 => rfp'[c].step = rfp[c].step + 1
                /\ rfp'[c].step = 9 /\ rfp[c].step # 9
                   => \/ rfp[c].step = 8
                      \/ rfp'[c].failed = rfp[c].step
                /\ rfp'[c].step >= rfp[c].step]_vars

\* process_rfp has gone through all nine steps and returned the output
\* files.
C25_Witness ==
    \E c \in Calls :
        /\ rfp[c].pc = "returned"
        /\ rfp[c].step = 9
        /\ rfp[c].failed = 0
        /\ rfp[c].kb_update
        /\ rfp[c].output_file_paths = "paths"

\* The positions of process_pdf inside the OCR fallback.
FallbackSteps ==
    {"makedirs", "pdftoppm", "listdir", "ocr_page", "remove_page", "cleanup"}

\* C26: only a PDF run whose direct extraction is insufficient creates,
\* reads or modifies the scratch directory: no call enters the fallback
\* unless it is a PDF call with fewer than 100 characters of direct text,
\* and every step outside the fallback (process_txt, process_docx, OCR of
\* an image file, the missing-file and unsupported-type outcomes, a PDF run
\* with sufficient direct text) leaves the directory and its contents as
\* they are.
C26_OnlyInsufficientPdfTouchesScratch ==
    /\ [](\A c \in Calls :
             frame[c].pc \in FallbackSteps \/ obs[c].written # {}
             => /\ obs[c].route = "pdftotext"
                /\ Len(DirectText(c)) < Threshold)
    /\ [][\A c \in Calls :
             frame'[c] # frame[c] /\ frame[c].pc \notin FallbackSteps
             => scratch' = scratch]_vars

\* A PDF call with sufficient direct text has ended while the scratch
\* directory held images of an earlier run.
C26_Witness ==
    \E c \in Calls :
        /\ Done(c)
        /\ obs[c].route = "pdftotext"
        /\ Len(DirectText(c)) >= Threshold
        /\ scratch.exists
        /\ DOMAIN scratch.files # {}

\* A text in normal form: no three line breaks in a row, no whitespace at
\* either end.
Normalised(t) ==
    /\ \A p \in 1..Len(t) :
           ~(p + 2 <= Len(t) /\ t[p] = NL /\ t[p + 1] = NL /\ t[p + 2] = NL)
    /\ t # <<>> => t[1] \notin Whitespace /\ t[Len(t)] \notin Whitespace

\* C27: whenever process_pdf returns, it returns a non-empty normalised
\* string or None, never the empty string: on the PDF path "nothing
\* extracted" is always reported as None.
C27_PdfNeverReturnsEmptyString ==
    \A c \in Calls :
        Done(c) /\ obs[c].route = "pdftotext" /\ ~frame[c].raised
        => /\ frame[c].result # Str(<<>>)
           /\ frame[c].result.some
              => /\ frame[c].result.text # <<>>
                 /\ Normalised(frame[c].result.text)

\* A fallback run over a blank page with no direct text has returned None;
\* every page text it collected is the empty string.
C27_Witness ==
    \E c \in Calls :
        /\ Done(c) /\ Rasterized(c) /\ NoFallbackFault(c)
        /\ DirectText(c) = <<>>
        /\ frame[c].ocr_texts # <<>>
        /\ \A k \in 1..Len(frame[c].ocr_texts) : frame[c].ocr_texts[k] = Str(<<>>)
        /\ Len(frame[c].ocr_texts) = 1
        /\ frame[c].result = None

====
